---------------------------- MODULE Spec2Model ----------------------------
(***************************************************************************)
(* SpamCheckApp: user registration, profile update and the GlobalContact   *)
(* directory that User.save keeps in step with the User table.             *)
(*                                                                         *)
(* A Python str is a TLA+ string; isdigit, strip, the substring test of    *)
(* validate_email and the f-string that builds GlobalContact.name are      *)
(* computed on its characters.                                             *)
(***************************************************************************)
EXTENDS Integers, Sequences, FiniteSets, TLC

(***************************************************************************)
(* Bounds of the model.                                                    *)
(***************************************************************************)
MaxUsers == 2
MaxReports == 1
MaxPatchFields == 2

(***************************************************************************)
(* max_length of the model fields (models.py).                             *)
(***************************************************************************)
SalutationMaxLength == 10
FirstNameMaxLength == 50
LastNameMaxLength == 50
OccupationMaxLength == 100
PhoneNumberMaxLength == 15
CountryCodeMaxLength == 5
EmailMaxLength == 254
ContactNameMaxLength == 100

(***************************************************************************)
(* Python values.  None is a value no str of the model equals.  NoUser is  *)
(* the NULL of GlobalContact.user.  NoneDict is None where a dict is       *)
(* expected.                                                               *)
(***************************************************************************)
None == "<None>"
NoUser == 0
NoneDict == [None |-> TRUE]

\* The character of s at position i.
Char(s, i) == SubSeq(s, i, i)

\* c * n
RECURSIVE Repeat(_, _)
Repeat(c, n) == IF n = 0 THEN "" ELSE c \o Repeat(c, n - 1)

Digits == {"0", "1", "2", "3", "4", "5", "6", "7", "8", "9"}

\* str.isdigit(): non-empty and every character a decimal digit.
IsDigit(s) == Len(s) > 0 /\ \A i \in 1..Len(s) : Char(s, i) \in Digits

\* sub in s
Contains(sub, s) ==
    \E i \in 0..(Len(s) - Len(sub)) : SubSeq(s, i + 1, i + Len(sub)) = sub

RECURSIVE LStrip(_)
LStrip(s) ==
    IF s # "" /\ Char(s, 1) = " " THEN LStrip(SubSeq(s, 2, Len(s))) ELSE s

RECURSIVE RStrip(_)
RStrip(s) ==
    IF s # "" /\ Char(s, Len(s)) = " " THEN RStrip(SubSeq(s, 1, Len(s) - 1)) ELSE s

\* str.strip()
Strip(s) == RStrip(LStrip(s))

\* f"{first_name} {last_name}"
FullName(first_name, last_name) == first_name \o " " \o last_name


(***************************************************************************)
(* UserSerializer (Serializers/user.py).  The writable fields in the order *)
(* of Meta.fields; id and date_joined are read-only and password is not    *)
(* listed at all.                                                          *)
(***************************************************************************)
WritableFields ==
    <<"salutation", "first_name", "last_name", "occupation",
      "phone_number", "country_code", "email">>

FieldNames == {WritableFields[i] : i \in 1..Len(WritableFields)}

\* blank=True, null=True on the model field: the serializer field is
\* required=False, allow_null=True, allow_blank=True.
Optional(f) == f \in {"salutation", "occupation", "email"}

MaxLength(f) ==
    CASE f = "salutation" -> SalutationMaxLength
      [] f = "first_name" -> FirstNameMaxLength
      [] f = "last_name" -> LastNameMaxLength
      [] f = "occupation" -> OccupationMaxLength
      [] f = "phone_number" -> PhoneNumberMaxLength
      [] f = "country_code" -> CountryCodeMaxLength
      [] f = "email" -> EmailMaxLength

\* Meta without extra_kwargs: every field answers with the framework's
\* message.
RequiredMessageDefault(f) == "This field is required."

\* Meta.extra_kwargs: the 'required' messages.
RequiredMessage(f) ==
    CASE f = "first_name" -> "First name is required."
      [] f = "last_name" -> "Last name is required."
      [] f = "country_code" -> "Country code is required."
      [] f = "phone_number" -> "Phone number is required."
      [] f = "email" -> "Email is required."
      [] OTHER -> "This field is required."

MaxLengthMessage(f) ==
    CASE f = "salutation" -> "Ensure this field has no more than 10 characters."
      [] f = "first_name" -> "Ensure this field has no more than 50 characters."
      [] f = "last_name" -> "Ensure this field has no more than 50 characters."
      [] f = "occupation" -> "Ensure this field has no more than 100 characters."
      [] f = "phone_number" -> "Ensure this field has no more than 15 characters."
      [] f = "country_code" -> "Ensure this field has no more than 5 characters."
      [] f = "email" -> "Ensure this field has no more than 254 characters."

\* The position of the last "@" of s, 0 when there is none (rsplit("@", 1)).
LastAt(s) ==
    IF \E i \in 1..Len(s) : Char(s, i) = "@"
    THEN CHOOSE i \in 1..Len(s) :
             Char(s, i) = "@" /\ \A j \in (i + 1)..Len(s) : Char(s, j) # "@"
    ELSE 0

\* The EmailField's validator, reduced to its shape: a non-empty user part
\* without blanks or "@", and a domain of non-empty dot-separated labels with
\* at least one dot.
IsEmail(s) ==
    LET at == LastAt(s)
        user == SubSeq(s, 1, at - 1)
        domain == SubSeq(s, at + 1, Len(s))
    IN  /\ at > 1
        /\ \A i \in 1..Len(user) : Char(user, i) \notin {" ", "@"}
        /\ Len(domain) >= 3
        /\ \E i \in 2..(Len(domain) - 1) : Char(domain, i) = "."
        /\ Char(domain, 1) # "." /\ Char(domain, Len(domain)) # "."
        /\ \A i \in 1..Len(domain) : Char(domain, i) # " "
        /\ \A i \in 1..(Len(domain) - 1) : SubSeq(domain, i, i + 1) # ".."

\* unique=True on User.phone_number: the serializer field carries a
\* UniqueValidator that leaves the instance being updated out of the query.
PhoneNumberTaken(users, instance, value) ==
    \E i \in 1..Len(users) : i # instance /\ users[i].phone_number = value

\* The messages of the field's validators, all of them collected.
ValidatorErrors(f, value, users, instance) ==
    (IF f = "phone_number" /\ PhoneNumberTaken(users, instance, value)
     THEN <<"user with this phone number already exists.">> ELSE <<>>)
    \o (IF Len(value) > MaxLength(f) THEN <<MaxLengthMessage(f)>> ELSE <<>>)
    \o (IF f = "email" /\ ~IsEmail(value)
        THEN <<"Enter a valid email address.">> ELSE <<>>)

\* UserSerializer.validate_phone_number
validate_phone_number(value) ==
    IF ~IsDigit(value) THEN <<"Phone number must be numeric.">> ELSE <<>>

\* UserSerializer.validate_email: '@example.com' in value.
ExampleDomain == "@example.com"

validate_email(value) ==
    IF Contains(ExampleDomain, value)
    THEN <<"Email addresses from example.com are not allowed.">> ELSE <<>>

\* validate_<field_name>, looked up by name; most fields have none.
ValidateMethod(f, value) ==
    CASE f = "phone_number" -> validate_phone_number(value)
      [] f = "email" -> validate_email(value)
      [] OTHER -> <<>>

Outcome(skip, errors, value, raised) ==
    [skip |-> skip, errors |-> errors, value |-> value, raised |-> raised]

\* A value that passed the field's own checks: its validators' messages, or
\* with none of those what validate_<field_name> says.
Validated(f, value, errs) ==
    IF errs # <<>>
    THEN Outcome(FALSE, errs, value, FALSE)
    ELSE Outcome(FALSE, ValidateMethod(f, value), value, FALSE)

\* One field of the serializer: run_validation, then validate_<field_name>.
\* raised: validate_email(None) is a TypeError, which is no ValidationError.
RunField(f, data, partial, users, instance) ==
    IF f \notin DOMAIN data
    THEN IF partial \/ Optional(f)
         THEN Outcome(TRUE, <<>>, None, FALSE)
         ELSE Outcome(FALSE, <<RequiredMessage(f)>>, None, FALSE)
    ELSE IF data[f] = None
    THEN IF Optional(f)
         THEN Outcome(FALSE, <<>>, None, f = "email")
         ELSE Outcome(FALSE, <<"This field may not be null.">>, None, FALSE)
    ELSE IF Strip(data[f]) = ""
    THEN IF Optional(f)
         THEN Outcome(FALSE, ValidateMethod(f, ""), "", FALSE)
         ELSE Outcome(FALSE, <<"This field may not be blank.">>, "", FALSE)
    ELSE Validated(f, Strip(data[f]),
                   ValidatorErrors(f, Strip(data[f]), users, instance))

\* UserSerializer(instance, data=data, partial=partial) after is_valid():
\* errors holds every failing field with its list of messages,
\* validated_data the supplied fields, converted.
Collected(ran) ==
    [errors |-> [f \in {g \in FieldNames : ran[g].errors # <<>>} |->
                    ran[f].errors],
     validated_data |-> [f \in {g \in FieldNames : ~ran[g].skip} |->
                            ran[f].value],
     raised |-> \E f \in FieldNames : ran[f].raised]

Serializer(data, partial, users, instance) ==
    Collected([salutation |-> RunField("salutation", data, partial, users, instance),
               first_name |-> RunField("first_name", data, partial, users, instance),
               last_name |-> RunField("last_name", data, partial, users, instance),
               occupation |-> RunField("occupation", data, partial, users, instance),
               phone_number |-> RunField("phone_number", data, partial, users, instance),
               country_code |-> RunField("country_code", data, partial, users, instance),
               email |-> RunField("email", data, partial, users, instance)])

\* serializer.is_valid()
IsValid(serializer) == DOMAIN serializer.errors = {}

\* format_serializer_errors of the registration view: the first message of
\* each field.
RegistrationFormatErrors(errors) == [f \in DOMAIN errors |-> errors[f][1]]

\* format_serializer_errors of the profile view: the loop fills
\* formatted_errors and the function ends without returning it.
ProfileFormatErrors(errors) ==
    LET formatted_errors == [f \in DOMAIN errors |-> errors[f][1]]
    IN  NoneDict

\* make_password: a salted one-way digest; None gives an unusable password.
make_password(raw) ==
    IF raw = None THEN "!" ELSE "pbkdf2_sha256$" \o raw

(***************************************************************************)
(* The state: the User and GlobalContact tables (a row's id is its         *)
(* position), the number of spam reports filed per phone number, the       *)
(* request being served and its response.  strict_varchar tells whether    *)
(* the database refuses a value longer than its column (PostgreSQL does,   *)
(* SQLite does not).  save_failed is TRUE once a User.save has raised      *)
(* after its super().save(): that request did not succeed.  pc is the      *)
(* position of the worker: idle, a response ready ("respond"), or inside a *)
(* User.save that runs statement by statement, with saving (self) and      *)
(* global_contact its locals.                                              *)
(***************************************************************************)
VARIABLES users, contacts, reports, request, response, strict_varchar,
          save_failed, pc, saving, global_contact

vars == <<users, contacts, reports, request, response, strict_varchar,
          save_failed, pc, saving, global_contact>>

(***************************************************************************)
(* The requests the model sends.  request.data is a dict holding the keys  *)
(* the client sent: Absent marks a key that is left out.                   *)
(***************************************************************************)
Ana == "Ana"
Fifty == Repeat("f", FirstNameMaxLength)
Lifty == Repeat("l", LastNameMaxLength)
Phone1 == "15551234567"
Phone2 == "15557654321"
PhoneAlpha == "1555abc"
GoodEmail == "ana@mail.org"
ExampleEmail == "ana@example.com"
Secret == "x"

Absent == "<absent>"

Dicts(supplied) ==
    {[k \in {f \in DOMAIN full : full[f] # Absent} |-> full[k]] :
        full \in [first_name : supplied.first_name,
                  last_name : supplied.last_name,
                  phone_number : supplied.phone_number,
                  country_code : supplied.country_code,
                  email : supplied.email,
                  password : supplied.password]}

\* The registrations the worker is sent.
RegistrationPayloads ==
    Dicts([first_name |-> {Absent, Ana, Fifty},
           last_name |-> {Lifty},
           phone_number |-> {Absent, Phone1, Phone2, PhoneAlpha},
           country_code |-> {"1"},
           email |-> {Absent, None, GoodEmail, ExampleEmail},
           password |-> {Secret}])

\* The partial updates the worker is sent: at most MaxPatchFields fields.
PatchPayloads ==
    {d \in Dicts([first_name |-> {Absent, Ana, Fifty},
                  last_name |-> {Absent},
                  phone_number |-> {Absent, Phone1, Phone2, PhoneAlpha},
                  country_code |-> {Absent},
                  email |-> {Absent, None, GoodEmail, ExampleEmail},
                  password |-> {Absent}]) :
        Cardinality(DOMAIN d) <= MaxPatchFields}

\* Every registration over these values, any of its keys left out.
AnyRegistrationPayloads ==
    Dicts([first_name |-> {Absent, Ana, Fifty},
           last_name |-> {Absent, Lifty},
           phone_number |-> {Absent, Phone1, Phone2, PhoneAlpha},
           country_code |-> {Absent, "1"},
           email |-> {Absent, None, GoodEmail, ExampleEmail},
           password |-> {Absent, Secret}])

\* dict.get(key): None for a missing key.
Get(data, key) == IF key \in DOMAIN data THEN data[key] ELSE None

Response(status, body) == [status |-> status, body |-> body]

Request(method, path, caller, data) ==
    [method |-> method, path |-> path, user |-> caller, data |-> data]

NoRequest == Request("", "", NoUser, [k \in {} |-> None])
NoResponse == Response(0, [message |-> ""])
NoContact == [pk |-> 0]

(***************************************************************************)
(* models.py                                                               *)
(***************************************************************************)
\* User(**validated_data): the fields not given take the model's defaults.
NewUser(validated_data) ==
    [id |-> NoUser,
     salutation |-> Get(validated_data, "salutation"),
     first_name |-> validated_data["first_name"],
     last_name |-> validated_data["last_name"],
     occupation |-> Get(validated_data, "occupation"),
     phone_number |-> validated_data["phone_number"],
     country_code |-> validated_data["country_code"],
     email |-> Get(validated_data, "email"),
     password |-> ""]

\* ModelSerializer.update: setattr for every validated field.
SetAttrs(user, validated_data) ==
    [k \in DOMAIN user |->
        IF k \in DOMAIN validated_data THEN validated_data[k] ELSE user[k]]

\* super().save(): INSERT a user without id, UPDATE the row otherwise.
ModelSave(table, user) ==
    IF user.id = NoUser
    THEN Append(table, [user EXCEPT !.id = Len(table) + 1])
    ELSE [table EXCEPT ![user.id] = user]

SavedId(table, user) == IF user.id = NoUser THEN Len(table) + 1 ELSE user.id

\* The database refuses a GlobalContact row whose name does not fit.
DataError(strict, row) == strict /\ Len(row.name) > ContactNameMaxLength

\* The defaults of get_or_create, and the model's defaults for the rest.
NewContact(self) ==
    [phone_number |-> self.phone_number,
     name |-> FullName(self.first_name, self.last_name),
     is_registered_user |-> TRUE,
     country_code |-> self.country_code,
     email |-> self.email,
     spam_count |-> 0,
     total_reports |-> 0,
     user |-> NoUser]

\* The branch without its assignment to name.
SyncContactKeepingName(row, self) ==
    [row EXCEPT !.is_registered_user = TRUE,
                !.country_code = self.country_code,
                !.email = self.email,
                !.user = self.id]

\* The branch writing a fresh row over the one it found.
SyncContactFromDefaults(row, self) ==
    [NewContact(self) EXCEPT !.user = self.id]

\* The assignments of the 'if not created' branch.
SyncContact(row, self) ==
    [row EXCEPT !.name = FullName(self.first_name, self.last_name),
                !.is_registered_user = TRUE,
                !.country_code = self.country_code,
                !.email = self.email,
                !.user = self.id]

\* The row of the table with this phone number; 0 when there is none.
Lookup(table, phone_number) ==
    IF \E i \in 1..Len(table) : table[i].phone_number = phone_number
    THEN CHOOSE i \in 1..Len(table) : table[i].phone_number = phone_number
    ELSE 0

\* GlobalContact.objects.get_or_create and what follows it in User.save.
SyncGlobalContact(table, self, strict) ==
    LET i == Lookup(table, self.phone_number)
        row == IF i = 0 THEN NewContact(self) ELSE SyncContact(table[i], self)
    IN  IF DataError(strict, row)
        THEN [contacts |-> table, raised |-> TRUE]
        ELSE [contacts |-> IF i = 0 THEN Append(table, row)
                                    ELSE [table EXCEPT ![i] = row],
              raised |-> FALSE]

\* User.save: the user row first, then the directory.
AfterSync(saved, synced) ==
    [users |-> saved, contacts |-> synced.contacts, raised |-> synced.raised]

SyncSaved(saved, id, ctable, strict) ==
    AfterSync(saved, SyncGlobalContact(ctable, saved[id], strict))

UserSave(utable, ctable, user, strict) ==
    SyncSaved(ModelSave(utable, user), SavedId(utable, user), ctable, strict)

\* serializer.data: the fields of Meta.fields (date_joined left out).
Profile(user) ==
    [k \in {"id"} \cup FieldNames |-> user[k]]

\* An exception no handler catches.
ServerError == Response(500, [error |-> "Internal Server Error"])

\* What a handler leaves behind: the tables, the response or the exception
\* it ended in, and whether it got as far as saving the account.
Result(utable, ctable, resp, exc, saved) ==
    [users |-> utable, contacts |-> ctable, response |-> resp, raised |-> exc,
     saved |-> saved]

\* A handler before serializer.save(): it has answered already, or it goes
\* on to save this user and to answer with this response.
Answered(resp, exc) == [done |-> TRUE, response |-> resp, raised |-> exc]
Proceed(user, resp) == [done |-> FALSE, user |-> user, response |-> resp]

\* serializer.save() and the response after it; an exception of User.save
\* leaves the handler.
Saved(saved, resp) ==
    IF saved.raised
    THEN Result(saved.users, saved.contacts, ServerError, TRUE, TRUE)
    ELSE Result(saved.users, saved.contacts, resp, FALSE, TRUE)

\* The rest of a handler after validation.
Conclude(utable, ctable, v, strict) ==
    IF v.done
    THEN Result(utable, ctable, v.response, v.raised, FALSE)
    ELSE Saved(UserSave(utable, ctable, v.user, strict), v.response)

(***************************************************************************)
(* Views/User/userRegistration.py                                          *)
(***************************************************************************)
\* The check looking at the newest account only.
NewestHasPhoneNumber(utable, phone_number) ==
    /\ Len(utable) > 0
    /\ utable[Len(utable)].phone_number = phone_number

PhoneNumberExists(utable, phone_number) ==
    \E i \in 1..Len(utable) : utable[i].phone_number = phone_number

DuplicateResponse ==
    Response(400, [error |-> "A user with this phone number already exists."])

RegisteredResponse ==
    Response(201, [message |-> "User registered successfully."])

\* UserRegistrationAPIView.post up to serializer.save().
RegistrationDecide(serializer) ==
    IF serializer.raised
    THEN Answered(ServerError, TRUE)
    ELSE IF IsValid(serializer)
    THEN Proceed(NewUser(serializer.validated_data), RegisteredResponse)
    ELSE Answered(Response(400,
             [error |-> "Validation failed.",
              details |-> RegistrationFormatErrors(serializer.errors)]),
             FALSE)

RegistrationValidate(utable, payload) ==
    LET phone_number == Get(payload, "phone_number")
        hashed == make_password(Get(payload, "password"))
        data == [k \in DOMAIN payload \cup {"password"} |->
                    IF k = "password" THEN hashed ELSE payload[k]]
    IN  IF PhoneNumberExists(utable, phone_number)
        THEN Answered(DuplicateResponse, FALSE)
        ELSE RegistrationDecide(Serializer(data, FALSE, utable, NoUser))

\* UserRegistrationAPIView.post
RegistrationPost(utable, ctable, payload, strict) ==
    Conclude(utable, ctable, RegistrationValidate(utable, payload), strict)

(***************************************************************************)
(* Views/User/profile.py                                                   *)
(***************************************************************************)
UpdatedResponse(instance) ==
    Response(200, [message |-> "Profile updated successfully.",
                   data |-> Profile(instance)])

\* UserProfileAPIView.patch up to instance.save(), for the authenticated
\* caller request.user.
\* The instance goes on to be saved, and serializer.data will show it.
Update(instance) == Proceed(instance, UpdatedResponse(instance))

ProfileDecide(user, serializer) ==
    IF serializer.raised
    THEN Answered(ServerError, TRUE)
    ELSE IF IsValid(serializer)
    THEN Update(SetAttrs(user, serializer.validated_data))
    ELSE Answered(Response(400,
             [error |-> "Validation failed.",
              details |-> ProfileFormatErrors(serializer.errors)]),
             FALSE)

ProfileValidate(utable, caller, data) ==
    ProfileDecide(utable[caller], Serializer(data, TRUE, utable, caller))

\* UserProfileAPIView.patch
ProfilePatch(utable, ctable, caller, data, strict) ==
    Conclude(utable, ctable, ProfileValidate(utable, caller, data), strict)

(***************************************************************************)
(* The spam-report flow, which files a report against a phone number and   *)
(* counts it in the directory in one atomic statement.                     *)
(***************************************************************************)
ReportablePhones == {Phone1}

UnknownContact(phone_number, country_code) ==
    [phone_number |-> phone_number,
     name |-> "",
     is_registered_user |-> FALSE,
     country_code |-> country_code,
     email |-> None,
     spam_count |-> 0,
     total_reports |-> 0,
     user |-> NoUser]

CountReport(row) ==
    [row EXCEPT !.spam_count = @ + 1, !.total_reports = @ + 1]

ReportNumber(table, phone_number, country_code) ==
    LET i == Lookup(table, phone_number)
    IN  IF i = 0
        THEN Append(table, CountReport(UnknownContact(phone_number, country_code)))
        ELSE [table EXCEPT ![i] = CountReport(table[i])]

(***************************************************************************)
(* The worker serves one request at a time: a handler runs to completion   *)
(* on the request it is given, and the response is sent before the next    *)
(* request is taken.                                                       *)
(***************************************************************************)
Init ==
    /\ users = <<>>
    /\ contacts = <<>>
    /\ reports = [p \in ReportablePhones |-> 0]
    /\ request = NoRequest
    /\ response = NoResponse
    /\ strict_varchar \in BOOLEAN
    /\ save_failed = FALSE
    /\ pc = "idle"
    /\ saving = NoUser
    /\ global_contact = NoContact

\* The worker has run a handler on a request: r is what it left behind.
Serve(req, r) ==
    /\ Len(r.users) <= MaxUsers
    /\ request' = req
    /\ users' = r.users
    /\ contacts' = r.contacts
    /\ response' = r.response
    /\ save_failed' = (save_failed \/ (r.saved /\ r.raised))
    /\ pc' = "respond"
    /\ UNCHANGED <<reports, strict_varchar, saving, global_contact>>

Register ==
    /\ pc = "idle"
    /\ \E data \in RegistrationPayloads :
          Serve(Request("POST", "/register/", NoUser, data),
                RegistrationPost(users, contacts, data, strict_varchar))

PatchProfile ==
    /\ pc = "idle"
    /\ \E caller \in 1..Len(users) :
       \E data \in PatchPayloads :
          Serve(Request("PATCH", "/profile/", caller, data),
                ProfilePatch(users, contacts, caller, data, strict_varchar))

Respond ==
    /\ pc = "respond"
    /\ request' = NoRequest
    /\ response' = NoResponse
    /\ pc' = "idle"
    /\ UNCHANGED <<users, contacts, reports, strict_varchar, save_failed,
                   saving, global_contact>>

\* A report filed by an account against a phone number.
FileReport ==
    \E reporter \in 1..Len(users) :
    \E phone_number \in ReportablePhones :
       /\ reports[phone_number] < MaxReports
       /\ contacts' = ReportNumber(contacts, phone_number, "1")
       /\ reports' = [reports EXCEPT ![phone_number] = @ + 1]

\* A report filed while no request is being served.
ReportSpam ==
    /\ pc = "idle"
    /\ FileReport
    /\ UNCHANGED <<users, request, response, strict_varchar, save_failed, pc,
                   saving, global_contact>>

Next ==
    \/ Register
    \/ PatchProfile
    \/ Respond
    \/ ReportSpam

Spec == Init /\ [][Next]_vars

(***************************************************************************)
(* The worker and the report flow side by side: User.save is three         *)
(* statements against the database, and a report may be filed between any  *)
(* two of them.                                                            *)
(***************************************************************************)
\* The response of the handler whose serializer.save() has returned.
SavedResponse ==
    IF request.path = "/register/"
    THEN RegisteredResponse
    ELSE UpdatedResponse(users[saving])

\* A handler up to and including super().save() of User.save.
BeginSave(req, v) ==
    /\ request' = req
    /\ IF v.done
       THEN /\ response' = v.response
            /\ pc' = "respond"
            /\ UNCHANGED <<users, saving>>
       ELSE /\ Len(users) + (IF v.user.id = NoUser THEN 1 ELSE 0) <= MaxUsers
            /\ users' = ModelSave(users, v.user)
            /\ saving' = SavedId(users, v.user)
            /\ response' = NoResponse
            /\ pc' = "get_or_create"
    /\ UNCHANGED <<contacts, reports, strict_varchar, save_failed,
                   global_contact>>

RegisterBegin ==
    /\ pc = "idle"
    /\ \E data \in RegistrationPayloads :
          BeginSave(Request("POST", "/register/", NoUser, data),
                    RegistrationValidate(users, data))

PatchProfileBegin ==
    /\ pc = "idle"
    /\ \E caller \in 1..Len(users) :
       \E data \in PatchPayloads :
          BeginSave(Request("PATCH", "/profile/", caller, data),
                    ProfileValidate(users, caller, data))

\* GlobalContact.objects.get_or_create: the row is created and User.save
\* returns, or the row is read into global_contact.
GetOrCreate ==
    /\ pc = "get_or_create"
    /\ LET self == users[saving]
           i == Lookup(contacts, self.phone_number)
       IN  IF i # 0
           THEN /\ global_contact' = [pk |-> i, row |-> contacts[i]]
                /\ pc' = "contact_save"
                /\ UNCHANGED <<contacts, response, save_failed, saving>>
           ELSE /\ global_contact' = NoContact
                /\ saving' = NoUser
                /\ pc' = "respond"
                /\ IF DataError(strict_varchar, NewContact(self))
                   THEN /\ response' = ServerError
                        /\ save_failed' = TRUE
                        /\ UNCHANGED contacts
                   ELSE /\ response' = SavedResponse
                        /\ contacts' = Append(contacts, NewContact(self))
                        /\ UNCHANGED save_failed
    /\ UNCHANGED <<users, reports, request, strict_varchar>>

\* The 'if not created' branch: the assignments to the row that was read,
\* and global_contact.save(), which writes every column of it.
ContactSave ==
    /\ pc = "contact_save"
    /\ LET row == SyncContact(global_contact.row, users[saving])
       IN  IF DataError(strict_varchar, row)
           THEN /\ response' = ServerError
                /\ save_failed' = TRUE
                /\ UNCHANGED contacts
           ELSE /\ response' = SavedResponse
                /\ contacts' = [contacts EXCEPT ![global_contact.pk] = row]
                /\ UNCHANGED save_failed
    /\ global_contact' = NoContact
    /\ saving' = NoUser
    /\ pc' = "respond"
    /\ UNCHANGED <<users, reports, request, strict_varchar>>

\* A report filed at any moment, also in the middle of User.save.
RacingReport ==
    /\ FileReport
    /\ UNCHANGED <<users, request, response, strict_varchar, save_failed, pc,
                   saving, global_contact>>

NextRace ==
    \/ RegisterBegin
    \/ PatchProfileBegin
    \/ GetOrCreate
    \/ ContactSave
    \/ Respond
    \/ RacingReport

SpecRace == Init /\ [][NextRace]_vars

(***************************************************************************)
(* Properties.                                                             *)
(***************************************************************************)
UserIds == 1..Len(users)

\* The rows of a GlobalContact table that carry this phone number.
RowsFor(table, phone_number) ==
    {i \in 1..Len(table) : table[i].phone_number = phone_number}

\* The row mirrors the account: registered, and name, country code and email
\* are the account's.
Mirrors(row, user) ==
    /\ row.is_registered_user
    /\ row.name = user.first_name \o " " \o user.last_name
    /\ row.country_code = user.country_code
    /\ row.email = user.email

\* C1: as long as every registration and profile update has succeeded, each
\* account has exactly one directory entry under its current phone number,
\* and that entry is flagged registered and carries the account's name
\* ("first last"), country code and email.
C1_DirectoryMirrorsAccounts ==
    ~save_failed =>
        \A u \in UserIds :
            LET rows == RowsFor(contacts, users[u].phone_number)
            IN  /\ Cardinality(rows) = 1
                /\ \A i \in rows : Mirrors(contacts[i], users[u])

\* A profile update that changed the caller's first name and email has been
\* answered with 200 while another account exists.
C1_Witness ==
    /\ pc = "respond"
    /\ request.path = "/profile/"
    /\ response.status = 200
    /\ ~save_failed
    /\ Len(users) = 2
    /\ DOMAIN request.data = {"first_name", "email"}
    /\ users[request.user].first_name = Fifty
    /\ users[request.user].email = GoodEmail

\* C2: a registration whose phone number an account already owns is answered
\* with the 400 duplicate response and leaves both tables as they were; and
\* no two accounts ever share a phone number.
C2_DuplicateRegistrationRejected ==
    /\ [][(/\ pc = "idle"
           /\ request'.path = "/register/"
           /\ "phone_number" \in DOMAIN request'.data
           /\ \E u \in UserIds :
                 users[u].phone_number = request'.data.phone_number)
          => (/\ response'.status = 400
              /\ response'.body =
                     [error |-> "A user with this phone number already exists."]
              /\ users' = users
              /\ contacts' = contacts)]_vars
    /\ [](\A u, v \in UserIds :
             users[u].phone_number = users[v].phone_number => u = v)

\* A registration has been refused as a duplicate while two accounts exist.
C2_Witness ==
    /\ pc = "respond"
    /\ request.path = "/register/"
    /\ Len(users) = 2
    /\ "phone_number" \in DOMAIN request.data
    /\ \E u \in UserIds : users[u].phone_number = request.data.phone_number
    /\ response.status = 400
    /\ response.body = [error |-> "A user with this phone number already exists."]

\* C3: when a registration succeeds for a phone number that already has an
\* unregistered directory entry, that number has exactly one entry afterwards,
\* flagged registered and linked to the new account, with spam_count and
\* total_reports as they were before the registration.
C3_RegistrationAdoptsEntry ==
    [][(/\ pc = "idle"
        /\ request'.path = "/register/"
        /\ response'.status = 201)
       => LET new == Len(users')
              p == users'[new].phone_number
          IN  \A i \in RowsFor(contacts, p) :
                  ~contacts[i].is_registered_user
                  => /\ RowsFor(contacts', p) = {i}
                     /\ contacts'[i].is_registered_user
                     /\ contacts'[i].user = new
                     /\ contacts'[i].spam_count = contacts[i].spam_count
                     /\ contacts'[i].total_reports = contacts[i].total_reports]_vars

\* The second account has registered under a number that had been reported
\* before: the first row belongs to the first account's number and was
\* created by its registration, the second row was created by the report.
C3_Witness ==
    /\ pc = "respond"
    /\ request.path = "/register/"
    /\ response.status = 201
    /\ Len(users) = 2
    /\ Len(contacts) = 2
    /\ contacts[1].phone_number = users[1].phone_number
    /\ contacts[1].user = NoUser
    /\ contacts[2].phone_number = users[2].phone_number
    /\ contacts[2].user = 2
    /\ contacts[2].is_registered_user
    /\ contacts[2].total_reports = 1
    /\ contacts[2].spam_count = 1

\* C4: after a successful registration the account's stored password is the
\* salted digest of the password that was sent, and no account's stored
\* password is a plaintext password that was sent.
C4_PasswordStoredAsDigest ==
    /\ (pc = "respond" /\ request.path = "/register/" /\ response.status = 201)
       => users[Len(users)].password
              = make_password(Get(request.data, "password"))
    /\ \A u \in UserIds : users[u].password # Secret

\* The fixed message of each field the claim calls required.
ClaimedRequiredMessage ==
    [first_name |-> "First name is required.",
     last_name |-> "Last name is required.",
     country_code |-> "Country code is required.",
     phone_number |-> "Phone number is required.",
     email |-> "Email is required."]

\* The response refuses a registration as invalid and its details give each
\* of the omitted fields its required-field message.
RefusedForOmitting(resp, omitted) ==
    /\ resp.status = 400
    /\ "details" \in DOMAIN resp.body
    /\ resp.body.error = "Validation failed."
    /\ \A f \in omitted :
          /\ f \in DOMAIN resp.body.details
          /\ resp.body.details[f] = ClaimedRequiredMessage[f]

RequiredInRegistration ==
    {"first_name", "last_name", "country_code", "phone_number"}

\* The registration sends strings, and no account owns its phone number.
FreshStrings(data) ==
    /\ \A k \in DOMAIN data : data[k] # None
    /\ "phone_number" \in DOMAIN data
       => \A u \in UserIds : users[u].phone_number # data["phone_number"]

C6_PatchFailureReported ==
    [][(/\ pc = "idle"
        /\ request'.path = "/profile/"
        /\ response'.status = 400)
       => LET errors == Serializer(request'.data, TRUE, users,
                                   request'.user).errors
          IN  /\ DOMAIN response'.body.details = DOMAIN errors
              /\ \A f \in DOMAIN errors :
                    response'.body.details[f] = errors[f][1]
              /\ users' = users
              /\ contacts' = contacts]_vars

\* C7: when an account is saved and its phone number has no directory entry
\* yet, the entry created for it carries the account's name, country code and
\* email, is flagged registered and is linked to the account.
C7_CreatedEntryLinked ==
    [][(/\ pc = "idle"
        /\ request'.path \in {"/register/", "/profile/"}
        /\ response'.status \in {200, 201})
       => LET u == IF request'.path = "/register/" THEN Len(users')
                   ELSE request'.user
              p == users'[u].phone_number
          IN  RowsFor(contacts, p) = {}
              => \E i \in RowsFor(contacts', p) :
                    /\ Mirrors(contacts'[i], users'[u])
                    /\ contacts'[i].user = u]_vars

\* The counters of an entry that reports can be filed against are the
\* number of reports filed against it.
CountersKeepEveryReport ==
    \A i \in 1..Len(contacts) :
       contacts[i].phone_number \in ReportablePhones
       => /\ contacts[i].spam_count = reports[contacts[i].phone_number]
          /\ contacts[i].total_reports = reports[contacts[i].phone_number]

\* C8: reports may be filed while User.save reads an entry, sets its name,
\* flag, country code, email and link and writes it back; once the save has
\* finished, the entry's counters are what they were at the start (zero) plus
\* the number of reports filed: no increment is lost.
C8_IncrementsPreserved ==
    pc \in {"idle", "respond"} => CountersKeepEveryReport

\* C9: a request whose directory write fails leaves the User table as it was,
\* so that every account has a directory entry that mirrors it.
C9_SaveIsAllOrNothing ==
    /\ [][(pc = "idle" /\ response'.status = 500) => users' = users]_vars
    /\ [](\A u \in UserIds :
             \E i \in RowsFor(contacts, users[u].phone_number) :
                 Mirrors(contacts[i], users[u]))

\* C10: every directory entry that is flagged registered or linked to an
\* account carries the current phone number of an account (of the linked
\* account when it is linked).
C10_NoStaleRegisteredEntry ==
    \A i \in 1..Len(contacts) :
        /\ (contacts[i].is_registered_user \/ contacts[i].user # NoUser)
           => \E u \in UserIds :
                 users[u].phone_number = contacts[i].phone_number
        /\ contacts[i].user # NoUser
           => users[contacts[i].user].phone_number = contacts[i].phone_number

=============================================================================
